---- MODULE Spec2Model ----
(***************************************************************************)
(* Model of scrape_plants.py: the synchronous crawl of a paginated plant   *)
(* catalog.  main() walks listing pages 1 .. PAGE_LIMIT-1, extracts the    *)
(* product links of each page, fetches every product page, extracts its    *)
(* title and prints the titles of the page.                                *)
(*                                                                         *)
(* Text is a sequence of one-character strings, so that str.strip() is     *)
(* computed and not assumed.  A Python Optional[str] is a record           *)
(* [some, val]; None is [some |-> FALSE, val |-> <<>>].                    *)
(***************************************************************************)
EXTENDS Integers, Sequences, FiniteSets

\* ------------------------------------------------------------------ bounds
\* PAGE_LIMIT ranges over 0 .. MaxPageLimit.
MaxPageLimit == 3
\* A listing page holds at most MaxCards well-formed product cards.
MaxCards == 2
\* The catalog holds at most MaxCatalog well-formed product cards over all
\* its listing pages.
MaxCatalog == 4
\* The text of a title element holds at most MaxTextLen characters.
MaxTextLen == 3

\* ----------------------------------------------------------- configuration
\* settings.BASE_URL and settings.PLANT_TYPE (imported, line 10).
BASE_URL == "https://shop.test"
PLANT_TYPE == "ferns"
\* search_url of the entry point.
search_url == BASE_URL \o "/collections/" \o PLANT_TYPE

\* The class attributes the extractors look for.
ProductClass == "grid-product__content"
TitleClass == "h2 product-single__title"

\* ------------------------------------------------------------------ values
None == [some |-> FALSE, val |-> <<>>]
Some(v) == [some |-> TRUE, val |-> v]

WhiteSpace == {" ", "\n"}

\* ------------------------------------------------------------- the website
\* A div of a listing page: its class, whether it has an <a> descendant and
\* whether that anchor carries an href.
Div(cls, anchor, hasHref, href) ==
    [class |-> cls, anchor |-> anchor, hasHref |-> hasHref, href |-> href]

Hrefs == {"/p/a", "/p/b"}

\* Well-formed product cards, the two malformed ones, and a div of another
\* class that also holds a link.
ValidCards == {Div(ProductClass, TRUE, TRUE, h) : h \in Hrefs}

BadCards == {Div(ProductClass, FALSE, FALSE, ""),    \* card without anchor
             Div(ProductClass, TRUE, FALSE, "")}     \* anchor without href

Footer == Div("footer", TRUE, TRUE, "/about")

RECURSIVE SeqsUpTo(_, _)
SeqsUpTo(S, n) ==
    IF n = 0 THEN {<<>>}
    ELSE LET shorter == SeqsUpTo(S, n - 1)
         IN  shorter \cup {Append(s, x) : s \in {t \in shorter : Len(t) = n - 1}, x \in S}

InsertAt(s, i, x) == SubSeq(s, 1, i) \o <<x>> \o SubSeq(s, i + 1, Len(s))

\* The listing pages a server may send: up to MaxCards well-formed cards, in
\* any order and with repetitions, possibly with one malformed card at any
\* position among them, followed by the footer.
WellFormedCards == SeqsUpTo(ValidCards, MaxCards)

MalformedCards ==
    UNION {{InsertAt(s, i, b) : i \in 0 .. Len(s), b \in BadCards} : s \in WellFormedCards}

ListingDocs == {d \o <<Footer>> : d \in WellFormedCards \cup MalformedCards}

\* An element of a product page.
Elem(tag, cls, text) == [tag |-> tag, class |-> cls, text |-> text]

\* The product page behind each link: /p/a has a title (with surrounding
\* white space in the markup), /p/b has an h1 of another class only.
ItemPage(url) ==
    IF url = BASE_URL \o "/p/a"
    THEN <<Elem("h1", "site-title", <<"x">>),
           Elem("h1", TitleClass, <<" ", "a", " ">>),
           Elem("h1", TitleClass, <<"z">>)>>
    ELSE <<Elem("h1", "site-title", <<"x">>)>>

\* The body of a response with a non-success status: an error page, with no
\* product card and no product title.
ErrorBody == <<>>

\* ------------------------------------------------------------ pure helpers
\* str.strip()
RECURSIVE LStrip(_)
LStrip(s) ==
    IF s = <<>> THEN <<>>
    ELSE IF Head(s) \in WhiteSpace THEN LStrip(Tail(s)) ELSE s

RECURSIVE RStrip(_)
RStrip(s) ==
    IF s = <<>> THEN <<>>
    ELSE IF s[Len(s)] \in WhiteSpace THEN RStrip(SubSeq(s, 1, Len(s) - 1)) ELSE s

\* A strip that leaves the trailing white space.
StripLeftOnly(s) == IF s = <<>> THEN <<>> ELSE LStrip(s)

Strip(s) == RStrip(LStrip(s))

\* soup.find(tag, {'class': class_name}): the first matching element, or None.
RECURSIVE SoupFind(_, _, _)
SoupFind(soup, tag, cls) ==
    IF soup = <<>> THEN None
    ELSE IF Head(soup).tag = tag /\ Head(soup).class = cls
         THEN Some(Head(soup))
         ELSE SoupFind(Tail(soup), tag, cls)

\* soup.findAll('div', {'class': cls}): every matching div, in document order.
RECURSIVE SoupFindAll(_, _)
SoupFindAll(soup, cls) ==
    IF soup = <<>> THEN <<>>
    ELSE IF Head(soup).class = cls
         THEN <<Head(soup)>> \o SoupFindAll(Tail(soup), cls)
         ELSE SoupFindAll(Tail(soup), cls)

\* get_by_class giving the empty text in place of None.
get_by_class_EmptyForNone(soup, tag, cls) ==
    LET found == SoupFind(soup, tag, cls)
    IN  IF found.some THEN Some(Strip(found.val.text)) ELSE Some(<<>>)

\* get_by_class: the stripped text of the first match; the AttributeError of
\* None.text is caught and gives None.
get_by_class(soup, tag, cls) ==
    LET found == SoupFind(soup, tag, cls)
    IN  IF found.some THEN Some(Strip(found.val.text)) ELSE None

\* get_plant_details: {'title': ...}
get_plant_details(soup) ==
    [title |-> get_by_class(soup, "h1", TitleClass)]

\* A comprehension that skips the malformed cards.
RECURSIVE LinkComprehensionSkipping(_)
LinkComprehensionSkipping(divs) ==
    IF divs = <<>> THEN [exc |-> "none", links |-> <<>>]
    ELSE LET d == Head(divs)
             rest == LinkComprehensionSkipping(Tail(divs))
         IN  IF ~d.anchor \/ ~d.hasHref THEN rest
             ELSE [exc |-> "none", links |-> <<BASE_URL \o d.href>> \o rest.links]

\* A comprehension that joins the base URL and the reference with a slash.
RECURSIVE LinkComprehensionSlash(_)
LinkComprehensionSlash(divs) ==
    IF divs = <<>> THEN [exc |-> "none", links |-> <<>>]
    ELSE LET d == Head(divs)
         IN  IF ~d.anchor THEN [exc |-> "TypeError", links |-> <<>>]
             ELSE IF ~d.hasHref THEN [exc |-> "KeyError", links |-> <<>>]
             ELSE LET rest == LinkComprehensionSlash(Tail(divs))
                  IN  IF rest.exc # "none" THEN rest
                      ELSE [exc |-> "none",
                            links |-> <<BASE_URL \o "/" \o d.href>> \o rest.links]

\* A comprehension that keeps one link per URL.
RECURSIVE LinkComprehensionDedup(_)
LinkComprehensionDedup(divs) ==
    IF divs = <<>> THEN [exc |-> "none", links |-> <<>>]
    ELSE LET d == Head(divs)
         IN  IF ~d.anchor THEN [exc |-> "TypeError", links |-> <<>>]
             ELSE IF ~d.hasHref THEN [exc |-> "KeyError", links |-> <<>>]
             ELSE LET rest == LinkComprehensionDedup(Tail(divs))
                  IN  IF rest.exc # "none" THEN rest
                      ELSE IF \E j \in DOMAIN rest.links : rest.links[j] = BASE_URL \o d.href
                           THEN rest
                           ELSE [exc |-> "none",
                                 links |-> <<BASE_URL \o d.href>> \o rest.links]

\* The list comprehension of get_plant_links, evaluated left to right:
\* link.find('a') is None for a card without anchor and None['href'] raises
\* TypeError; an anchor without href raises KeyError.
RECURSIVE LinkComprehension(_)
LinkComprehension(divs) ==
    IF divs = <<>> THEN [exc |-> "none", links |-> <<>>]
    ELSE LET d == Head(divs)
         IN  IF ~d.anchor THEN [exc |-> "TypeError", links |-> <<>>]
             ELSE IF ~d.hasHref THEN [exc |-> "KeyError", links |-> <<>>]
             ELSE LET rest == LinkComprehension(Tail(divs))
                  IN  IF rest.exc # "none" THEN rest
                      ELSE [exc |-> "none", links |-> <<BASE_URL \o d.href>> \o rest.links]

\* get_plant_links: only AttributeError is caught (logged, None returned);
\* any other exception leaves the function.
\*   ret = "list": links returned; "none": None returned; "raise": exc raised.
get_plant_links(soup) ==
    LET r == LinkComprehension(SoupFindAll(soup, ProductClass))
    IN  IF r.exc = "none" THEN [ret |-> "list", links |-> r.links, exc |-> "none", logged |-> 0]
        ELSE IF r.exc = "AttributeError"
             THEN [ret |-> "none", links |-> <<>>, exc |-> "none", logged |-> 1]
             ELSE [ret |-> "raise", links |-> <<>>, exc |-> r.exc, logged |-> 0]

\* A conversion that writes nothing for None.
StrBlankForNone(opt) == IF opt.some THEN opt.val ELSE <<>>

\* str(x) as print() writes it: the text itself, or None.
Str(opt) == IF opt.some THEN opt.val ELSE <<"N", "o", "n", "e">>

\* ------------------------------------------------------------------- state
VARIABLES
    PAGE_LIMIT,    \* settings.PAGE_LIMIT of this run
    pc,            \* position of main: "start", "loop", "listing", "items",
                   \* "emit", "done" (returned), "aborted" (exception left main)
    page,          \* the loop variable of main (0 before the first iteration)
    plant_links,   \* links of the current page
    plants,        \* details collected for the current page
    idx,           \* position in plant_links (pc = "items") or plants (pc = "emit")
    exc,           \* the exception that left main, "none" otherwise
    listFetches,   \* history: every httpx.get of a listing page
    itemFetches,   \* history: every httpx.get of a product page
    output,        \* standard output: the printed lines
    errorLog       \* number of logger.error calls

vars == <<PAGE_LIMIT, pc, page, plant_links, plants, idx, exc,
          listFetches, itemFetches, output, errorLog>>

Init ==
    /\ PAGE_LIMIT \in 0 .. MaxPageLimit
    /\ pc = "start"
    /\ page = 0
    /\ plant_links = <<>>
    /\ plants = <<>>
    /\ idx = 0
    /\ exc = "none"
    /\ listFetches = <<>>
    /\ itemFetches = <<>>
    /\ output = <<>>
    /\ errorLog = 0

\* ----------------------------------------------------------------- actions
\* main is entered: logger.info, then the for statement.
Start ==
    /\ pc = "start"
    /\ pc' = "loop"
    /\ UNCHANGED <<PAGE_LIMIT, page, plant_links, plants, idx, exc,
                   listFetches, itemFetches, output, errorLog>>

\* A range that includes its stop value, one that ends one value early, and
\* an iterator that steps by two.
InRangeInclusive(p, limit) == 1 <= p /\ p <= limit

InRangeShort(p, limit) == 1 <= p /\ p + 1 < limit

RangeNextByTwo(p) == p + 2

\* range(1, PAGE_LIMIT): membership, and the step of its iterator.
InRange(p, limit) == 1 <= p /\ p < limit

RangeNext(p) == p + 1

\* for page in range(1, PAGE_LIMIT): the next value, or the end of the loop.
NextPage ==
    /\ pc = "loop"
    /\ IF InRange(RangeNext(page), PAGE_LIMIT)
       THEN /\ page' = RangeNext(page)
            /\ pc' = "listing"
       ELSE /\ pc' = "done"
            /\ UNCHANGED page
    /\ UNCHANGED <<PAGE_LIMIT, plant_links, plants, idx, exc,
                   listFetches, itemFetches, output, errorLog>>

\* What httpx.get can give: a network error (raised), or a response whose
\* status is a success ("ok") or not ("bad"); no raise_for_status is called.
ListingResponses(docs) ==
    {[net |-> "error", status |-> "none", body |-> <<>>]}
        \cup {[net |-> "ok", status |-> "bad", body |-> ErrorBody]}
        \cup {[net |-> "ok", status |-> "ok", body |-> d] : d \in docs}

\* The number of well-formed product cards of a listing page, and of the
\* listing pages served so far.
CountValid(doc) == Cardinality({k \in DOMAIN doc : doc[k] \in ValidCards})

RECURSIVE CardsServed(_)
CardsServed(fetches) ==
    IF fetches = <<>> THEN 0
    ELSE CountValid(Head(fetches).resp.body) + CardsServed(Tail(fetches))

\* The listing pages the catalog can still serve.
RemainingDocs(fetches) ==
    {d \in ListingDocs : CountValid(d) + CardsServed(fetches) <= MaxCatalog}

ItemResponses(url) ==
    {[net |-> "error", status |-> "none", body |-> <<>>],
     [net |-> "ok", status |-> "bad", body |-> ErrorBody],
     [net |-> "ok", status |-> "ok", body |-> ItemPage(url)]}

\* if not plant_links: None and the empty list are both falsy.
Falsy(r) == r.ret = "none" \/ r.links = <<>>

\* continue in place of break.
AfterListingContinue(r) ==
    IF r.ret = "raise" THEN "aborted"
    ELSE IF r.ret = "none" \/ r.links = <<>> THEN "loop" ELSE "items"

\* Lines 98-104: where main goes with the outcome of get_plant_links: the
\* exception leaves main, or break ends the loop, or the items are processed.
AfterListing(r) ==
    IF r.ret = "raise" THEN "aborted"
    ELSE IF Falsy(r) THEN "done" ELSE "items"

\* Lines 96-102: fetch the listing page, parse it, extract the links, test.
FetchListing ==
    /\ pc = "listing"
    /\ \E resp \in ListingResponses(RemainingDocs(listFetches)) :
        /\ listFetches' = Append(listFetches,
                                 [url |-> search_url, page |-> page, resp |-> resp])
        /\ IF resp.net = "error"
           THEN /\ pc' = "aborted"
                /\ exc' = "RequestError"
                /\ UNCHANGED <<plant_links, plants, idx, errorLog>>
           ELSE LET r == get_plant_links(resp.body)
                IN  /\ errorLog' = errorLog + r.logged
                    /\ pc' = AfterListing(r)
                    /\ exc' = r.exc
                    /\ IF AfterListing(r) = "aborted"
                       THEN UNCHANGED <<plant_links, plants, idx>>
                       ELSE /\ plant_links' = r.links
                            /\ IF AfterListing(r) = "items"
                               THEN /\ plants' = <<>>
                                    /\ idx' = 1
                               ELSE UNCHANGED <<plants, idx>>
    /\ UNCHANGED <<PAGE_LIMIT, page, itemFetches, output>>

\* Printing as soon as the first item of the page was collected.
AfterItemEager(i, links) == IF i < 1 THEN "items" ELSE "emit"

\* Where main goes once the details of the item at position i were collected.
AfterItem(i, links) == IF i < Len(links) THEN "items" ELSE "emit"

\* Line 104, one element of the comprehension: get_plant_details(get_soup(link)).
FetchItem ==
    /\ pc = "items"
    /\ \E resp \in ItemResponses(plant_links[idx]) :
        /\ itemFetches' = Append(itemFetches,
                                 [url |-> plant_links[idx], page |-> page, resp |-> resp])
        /\ IF resp.net = "error"
           THEN /\ pc' = "aborted"
                /\ exc' = "RequestError"
                /\ UNCHANGED <<plants, idx>>
           ELSE /\ plants' = Append(plants, get_plant_details(resp.body))
                /\ pc' = AfterItem(idx, plant_links)
                /\ idx' = IF idx < Len(plant_links) THEN idx + 1 ELSE 1
                /\ exc' = "none"
    /\ UNCHANGED <<PAGE_LIMIT, page, plant_links, listFetches, output, errorLog>>

\* Printing in front of what was printed before.
WriteLineInFront(out, plant) == <<IF plant.title.some THEN plant.title.val ELSE <<"N", "o", "n", "e">>>> \o out

\* print(plant['title'])
WriteLine(out, plant) == Append(out, Str(plant.title))

\* Lines 106-107, one iteration: print the title of the next plant.
Emit ==
    /\ pc = "emit"
    /\ output' = WriteLine(output, plants[idx])
    /\ IF idx < Len(plants)
       THEN /\ idx' = idx + 1
            /\ pc' = "emit"
       ELSE /\ idx' = 0
            /\ pc' = "loop"
    /\ UNCHANGED <<PAGE_LIMIT, page, plant_links, plants, exc,
                   listFetches, itemFetches, errorLog>>

Next == Start \/ NextPage \/ FetchListing \/ FetchItem \/ Emit

Spec == Init /\ [][Next]_vars

\* ------------------------------------------ get_plant_details on its own
\* The product pages get_plant_details is applied to: pages without a title
\* element, and pages whose title element holds any text of up to MaxTextLen
\* characters, white space included, alone or after an h1 of another class.
TitleChars == {" ", "\n", "a"}

TitleTexts == SeqsUpTo(TitleChars, MaxTextLen)

ItemDocs ==
    {<<>>, <<Elem("h1", "site-title", <<"x">>)>>}
        \cup {<<Elem("h1", TitleClass, t)>> : t \in TitleTexts}
        \cup {<<Elem("h1", "site-title", <<"x">>), Elem("h1", TitleClass, t)>> :
                 t \in TitleTexts}

\* One product page was fetched with success; nothing was extracted yet.
InitDetails ==
    /\ PAGE_LIMIT = 2
    /\ pc = "details"
    /\ page = 1
    /\ plant_links = <<BASE_URL \o "/p/a">>
    /\ plants = <<>>
    /\ idx = 1
    /\ exc = "none"
    /\ listFetches = <<>>
    /\ \E doc \in ItemDocs :
          itemFetches = <<[url |-> BASE_URL \o "/p/a", page |-> 1,
                           resp |-> [net |-> "ok", status |-> "ok", body |-> doc]]>>
    /\ output = <<>>
    /\ errorLog = 0

\* get_plant_details(soup) on the page fetched.
ExtractDetails ==
    /\ pc = "details"
    /\ plants' = Append(plants, get_plant_details(itemFetches[1].resp.body))
    /\ pc' = "detailed"
    /\ UNCHANGED <<PAGE_LIMIT, page, plant_links, idx, exc,
                   listFetches, itemFetches, output, errorLog>>

NextDetails == ExtractDetails

SpecDetails == InitDetails /\ [][NextDetails]_vars

\* main under its scheduling: a sequential program whose calls all return
\* takes its next step whenever it has one.
FairSpec == Spec /\ WF_vars(Next)

\* ------------------------------------------------- reading the histories
\* The product cards of a listing page as they stand in its markup.
Cards(body) == SoupFindAll(body, ProductClass)

\* A card lacks its anchor, or its anchor lacks the href.
Malformed(body) ==
    \E k \in DOMAIN Cards(body) : ~Cards(body)[k].anchor \/ ~Cards(body)[k].hasHref

\* The absolute links of a well-formed listing page, in markup order.
MarkupLinks(body) == [k \in DOMAIN Cards(body) |-> BASE_URL \o Cards(body)[k].href]

\* No element of the page matches the title tag and class.
LacksTitle(body) ==
    ~\E k \in DOMAIN body : body[k].tag = "h1" /\ body[k].class = TitleClass

Responded(f) == f.resp.net = "ok"
Failed(f) == f.resp.net = "error" \/ f.resp.status = "bad"

NoFetchFailed ==
    /\ \A i \in DOMAIN listFetches : ~Failed(listFetches[i])
    /\ \A k \in DOMAIN itemFetches : ~Failed(itemFetches[k])

NoMalformedPage ==
    \A i \in DOMAIN listFetches : ~Malformed(listFetches[i].resp.body)

\* The listing page answered with well-formed markup and no product card.
YieldsNoLinks(f) ==
    Responded(f) /\ ~Malformed(f.resp.body) /\ Cards(f.resp.body) = <<>>

\* The listing page answered with well-formed markup and at least one card.
YieldsLinks(f) ==
    Responded(f) /\ ~Malformed(f.resp.body) /\ Cards(f.resp.body) # <<>>

\* The item fetches issued for listing page p, in the order they were issued.
FetchedOnPage(f, p) == f.page = p
PageFetches(p) == SelectSeq(itemFetches, LAMBDA f : FetchedOnPage(f, p))

Last(s) == s[Len(s)]

IsPrefix(s, t) == Len(s) <= Len(t) /\ s = SubSeq(t, 1, Len(s))

\* A line of white space only.
Blank(line) == \A i \in DOMAIN line : line[i] \in WhiteSpace

NoneLine == <<"N", "o", "n", "e">>

\* ------------------------------------------------------------------ claims

\* C1: when no fetch fails and every listing page is well formed, the first
\* listing page N without product cards ends the run: pages 1..N were fetched
\* once each in this order, N is below the page limit, main has returned, and
\* no listing or item fetch was issued for a page after N-1's items; and main
\* does not return before such a page unless the bound is reached.
C1_StopsAtFirstEmptyPage ==
    (NoFetchFailed /\ NoMalformedPage) =>
        /\ \A n \in DOMAIN listFetches :
              YieldsNoLinks(listFetches[n]) =>
                  /\ n = Len(listFetches)
                  /\ \A j \in 1 .. n : listFetches[j].page = j
                  /\ n < PAGE_LIMIT
                  /\ pc = "done"
                  /\ \A k \in DOMAIN itemFetches : itemFetches[k].page < n
        /\ (pc = "done" /\ Len(listFetches) + 1 < PAGE_LIMIT) =>
              /\ listFetches # <<>>
              /\ YieldsNoLinks(Last(listFetches))

\* The run of the end-to-end scenario: two items on page 1, page 2 empty.
C1_Witness ==
    /\ pc = "done"
    /\ NoFetchFailed /\ NoMalformedPage
    /\ PAGE_LIMIT = 3
    /\ Len(listFetches) = 2
    /\ YieldsNoLinks(listFetches[2])
    /\ Len(itemFetches) = 2
    /\ Len(output) = 2

\* C2: no listing fetch is issued, or about to be issued, for a page number
\* greater than or equal to PAGE_LIMIT, whatever the limit (0 and 1 included).
C2_BoundRespected ==
    /\ \A i \in DOMAIN listFetches : listFetches[i].page < PAGE_LIMIT
    /\ pc = "listing" => page < PAGE_LIMIT

\* Every page below the limit had links, and main returned at the bound.
C2_Witness ==
    /\ pc = "done"
    /\ PAGE_LIMIT >= 3
    /\ Len(listFetches) = PAGE_LIMIT - 1
    /\ \A i \in DOMAIN listFetches : YieldsLinks(listFetches[i])

\* C3: a listing page with a malformed card (no anchor, or no href) is
\* recovered inside get_plant_links: an error is logged, main takes the result
\* as no links and returns normally, and no item of that page is fetched.
C3_StructuralFailureRecovered ==
    \A i \in DOMAIN listFetches :
        (Responded(listFetches[i]) /\ Malformed(listFetches[i].resp.body)) =>
            /\ pc = "done"
            /\ exc = "none"
            /\ errorLog >= 1
            /\ PageFetches(listFetches[i].page) = <<>>

\* C4: for a listing page with a malformed card get_plant_links never returns
\* a list (so never the links of the well-formed cards); the page is the last
\* one fetched, none of its items is fetched and nothing of it is printed.
C4_AllOrNothing ==
    \A i \in DOMAIN listFetches :
        (Responded(listFetches[i]) /\ Malformed(listFetches[i].resp.body)) =>
            /\ get_plant_links(listFetches[i].resp.body).ret # "list"
            /\ i = Len(listFetches)
            /\ pc \in {"aborted", "done"}
            /\ PageFetches(listFetches[i].page) = <<>>
            /\ Len(output) = Len(itemFetches)

\* Two well-formed cards followed by a card without anchor.
C4_Witness ==
    /\ listFetches # <<>>
    /\ Responded(Last(listFetches))
    /\ LET cards == Cards(Last(listFetches).resp.body)
       IN  /\ Len(cards) = 3
           /\ cards[1] \in ValidCards
           /\ cards[2] \in ValidCards
           /\ ~cards[3].anchor
    /\ Len(listFetches) = 2
    /\ Len(output) >= 1

\* C5: every failed fetch (network error or non-success status), of a listing
\* page or of an item page, aborts the run: the exception leaves main and the
\* failed fetch is the last event of the run.
C5_AnyFetchFailureFatal ==
    /\ \A i \in DOMAIN listFetches :
          Failed(listFetches[i]) =>
              /\ pc = "aborted"
              /\ i = Len(listFetches)
              /\ PageFetches(listFetches[i].page) = <<>>
    /\ \A k \in DOMAIN itemFetches :
          Failed(itemFetches[k]) =>
              /\ pc = "aborted"
              /\ k = Len(itemFetches)
              /\ Len(output) < k

\* The line print() writes for the product page an item fetch received.
TitleLine(f) == Str(get_plant_details(f.resp.body).title)

\* Every link of listing fetch i has been fetched and answered.
PageComplete(i) ==
    /\ YieldsLinks(listFetches[i])
    /\ Len(PageFetches(listFetches[i].page)) = Len(Cards(listFetches[i].resp.body))
    /\ \A k \in DOMAIN PageFetches(listFetches[i].page) :
          Responded(PageFetches(listFetches[i].page)[k])

\* The titles of the links of listing fetch i, in the order of its markup.
PageLines(i) ==
    IF PageComplete(i)
    THEN [k \in DOMAIN Cards(listFetches[i].resp.body) |->
             TitleLine(PageFetches(listFetches[i].page)[k])]
    ELSE <<>>

\* The lines of the complete pages among the first n listing fetches, in
\* ascending page order.
RECURSIVE LinesUpTo(_)
LinesUpTo(n) == IF n = 0 THEN <<>> ELSE LinesUpTo(n - 1) \o PageLines(n)

\* C6: the item fetches of a page follow the links of its markup in order,
\* and the output is the concatenation, over the pages in ascending order, of
\* the title lines of each page's links in markup order: a prefix of it while
\* a page is being printed, all of it between pages and at the end.
C6_OrderPreserved ==
    /\ \A i \in DOMAIN listFetches :
          \A k \in DOMAIN PageFetches(listFetches[i].page) :
              /\ YieldsLinks(listFetches[i])
              /\ k <= Len(Cards(listFetches[i].resp.body))
              /\ PageFetches(listFetches[i].page)[k].url
                    = MarkupLinks(listFetches[i].resp.body)[k]
    /\ IsPrefix(output, LinesUpTo(Len(listFetches)))
    /\ pc \in {"loop", "done"} => output = LinesUpTo(Len(listFetches))
    /\ pc = "emit" => Len(output) = Len(itemFetches) - Len(plants) + idx - 1

\* Two pages were printed, and the first holds two links of different titles.
C6_Witness ==
    /\ pc = "done"
    /\ Len(listFetches) = 2
    /\ YieldsLinks(listFetches[1]) /\ YieldsLinks(listFetches[2])
    /\ Len(output) >= 3
    /\ output[1] # output[2]
    /\ itemFetches[3].page = 2

\* C7: get_plant_details always gives a mapping with the one key title, absent
\* exactly when the page has no matching element; main is never aborted by an
\* absent title (only by a network error or a malformed listing page); every
\* fetched item is printed, and when main returns every link of every page
\* with links was fetched and the following page below the limit was fetched.
C7_AbsentTitleDoesNotAbort ==
    /\ pc \in {"items", "emit"} =>
          /\ Len(plants) <= Len(PageFetches(page))
          /\ \A k \in DOMAIN plants :
                /\ DOMAIN plants[k] = {"title"}
                /\ plants[k].title = None <=> LacksTitle(PageFetches(page)[k].resp.body)
                /\ plants[k].title # None => plants[k].title.some
    /\ pc = "aborted" =>
          \/ exc = "RequestError" /\ listFetches # <<>> /\ ~Responded(Last(listFetches))
          \/ exc = "RequestError" /\ itemFetches # <<>> /\ ~Responded(Last(itemFetches))
          \/ exc \in {"TypeError", "KeyError"} /\ Malformed(Last(listFetches).resp.body)
    /\ pc \in {"loop", "done"} => Len(output) = Len(itemFetches)
    /\ pc = "done" =>
          \A i \in DOMAIN listFetches :
              YieldsLinks(listFetches[i]) =>
                  /\ PageComplete(i)
                  /\ i + 1 < PAGE_LIMIT => i < Len(listFetches)

\* The first item of page 1 has no title; the second item of page 1 and an
\* item of page 2 were fetched after it, and all three were printed.
C7_Witness ==
    /\ pc = "done"
    /\ Len(itemFetches) >= 3
    /\ Responded(itemFetches[1])
    /\ itemFetches[1].resp.status = "ok"
    /\ LacksTitle(itemFetches[1].resp.body)
    /\ itemFetches[2].page = 1
    /\ itemFetches[3].page = 2
    /\ Len(output) = Len(itemFetches)

\* C8 as stated: the line printed for an item whose page, fetched with
\* success, has no title is empty or blank.
C8_AbsentTitleBlankLine ==
    \A k \in DOMAIN output :
        (itemFetches[k].resp.status = "ok" /\ LacksTitle(itemFetches[k].resp.body))
            => Blank(output[k])

\* C8, amended: the line printed for an item without title is the text None.
C8_AbsentTitleNoneLine ==
    \A k \in DOMAIN output :
        LacksTitle(itemFetches[k].resp.body) => output[k] = NoneLine

\* A line was printed for an item whose page, fetched with success, has no title.
C8_Witness ==
    \E k \in DOMAIN output :
        /\ itemFetches[k].resp.status = "ok"
        /\ LacksTitle(itemFetches[k].resp.body)
        /\ output[k] = NoneLine

\* C9: the listing fetches are for pages 1, 2, 3, ... in this order (each one
\* more than the one before, none twice); the cursor is the number of the last
\* page fetched or of the page about to be fetched; a page without links is the
\* last one fetched; no more than PAGE_LIMIT - 1 pages are fetched; and main
\* returns only after a page without links or at the bound.
C9_CursorForward ==
    /\ \A i \in DOMAIN listFetches : listFetches[i].page = i
    /\ page = IF pc = "listing" THEN Len(listFetches) + 1 ELSE Len(listFetches)
    /\ \A i \in DOMAIN listFetches :
          (Responded(listFetches[i]) /\ Cards(listFetches[i].resp.body) = <<>>) =>
              i = Len(listFetches) /\ pc = "done"
    /\ Len(listFetches) < PAGE_LIMIT \/ listFetches = <<>>
    /\ pc = "done" =>
          \/ listFetches # <<>> /\ Responded(Last(listFetches))
                /\ Cards(Last(listFetches).resp.body) = <<>>
          \/ Len(listFetches) + 1 >= PAGE_LIMIT

\* Two pages were fetched and the run stopped at the page without links.
C9_Witness ==
    /\ pc = "done"
    /\ Len(listFetches) = 2
    /\ listFetches[2].page = 2
    /\ YieldsLinks(listFetches[1])
    /\ YieldsNoLinks(listFetches[2])

\* CheckBound of the driver state machine, on the incremented page number.
SpecCheckBound(p, limit) == IF p >= limit THEN "Done" ELSE "FetchListing"

\* One step of main at the head of its loop, as the driver state machine
\* takes it: Start goes to FetchListing with page 1; after a page was printed
\* the page number is incremented and CheckBound decides.
LoopStepAsSpec ==
    pc = "loop" =>
        IF page = 0
        THEN pc' = "listing" /\ page' = 1
        ELSE IF SpecCheckBound(page + 1, PAGE_LIMIT) = "Done"
             THEN pc' = "done" /\ page' = page
             ELSE pc' = "listing" /\ page' = page + 1

\* The bound is checked between pages only: the page just processed had
\* links, all of them were fetched and all their titles printed.
AtLoopHead ==
    (pc = "loop" /\ page >= 1) =>
        /\ Len(listFetches) = page
        /\ PageComplete(page)
        /\ Len(output) = Len(itemFetches)

ExpectedUrl(href) ==
    IF href = "/p/a" THEN "https://shop.test/p/a" ELSE "https://shop.test/p/b"

\* C11: for a listing page whose cards all have an anchor with an href,
\* get_plant_links returns a list with one link per card, in the order of the
\* markup, each the base URL followed at once by the card's href, and main
\* holds this list; a page without cards gives the empty list, returned as a
\* list and not as a failure (nothing raised, nothing logged).
C11_LinksFromMarkup ==
    \A i \in DOMAIN listFetches :
        (Responded(listFetches[i]) /\ ~Malformed(listFetches[i].resp.body)) =>
            LET cards == Cards(listFetches[i].resp.body)
                r == get_plant_links(listFetches[i].resp.body)
            IN  /\ r.ret = "list"
                /\ r.exc = "none"
                /\ r.logged = 0
                /\ Len(r.links) = Len(cards)
                /\ \A k \in DOMAIN cards : r.links[k] = ExpectedUrl(cards[k].href)
                /\ i = Len(listFetches) => plant_links = r.links
                /\ (i = Len(listFetches) /\ cards = <<>>) =>
                      pc = "done" /\ exc = "none" /\ errorLog = 0

\* A page with two different cards gave the two links in markup order.
C11_Witness ==
    /\ pc = "items"
    /\ Len(Cards(Last(listFetches).resp.body)) = 2
    /\ plant_links = <<"https://shop.test/p/b", "https://shop.test/p/a">>

\* No white space at either end.
Trimmed(t) == t = <<>> \/ (t[1] \notin WhiteSpace /\ t[Len(t)] \notin WhiteSpace)

\* The text of the first element of the page that matches the title tag and
\* class.
TitleText(body) ==
    LET first == CHOOSE k \in DOMAIN body :
                     /\ body[k].tag = "h1" /\ body[k].class = TitleClass
                     /\ \A j \in 1 .. k - 1 :
                           ~(body[j].tag = "h1" /\ body[j].class = TitleClass)
    IN  body[first].text

\* t is raw without the white space at its two ends.
StrippedOf(t, raw) ==
    /\ Trimmed(t)
    /\ \E i \in 0 .. Len(raw) :
          /\ i + Len(t) <= Len(raw)
          /\ t = SubSeq(raw, i + 1, i + Len(t))
          /\ \A j \in 1 .. i : raw[j] \in WhiteSpace
          /\ \A j \in i + Len(t) + 1 .. Len(raw) : raw[j] \in WhiteSpace

\* C12 as stated: the title of every ItemDetail is absent, or a non-empty
\* string without white space at either end.
C12_TitleAbsentOrNonEmpty ==
    pc = "detailed" =>
        \/ plants[1].title = None
        \/ /\ plants[1].title.some
           /\ plants[1].title.val # <<>>
           /\ Trimmed(plants[1].title.val)

\* C12, amended: the title is absent exactly when no element matches; else it
\* is present and is the text of the first matching element without the white
\* space at its ends, which is the empty string when that text is empty or
\* white space only.
C12_TitleAbsentOrStripped ==
    pc = "detailed" =>
        LET body == itemFetches[1].resp.body
            title == plants[1].title
        IN  /\ DOMAIN plants[1] = {"title"}
            /\ LacksTitle(body) => title = None
            /\ ~LacksTitle(body) =>
                  /\ title.some
                  /\ StrippedOf(title.val, TitleText(body))
                  /\ title.val = <<>> <=> Blank(TitleText(body))

\* A title element holding white space only gave a present, empty title.
C12_Witness ==
    /\ pc = "detailed"
    /\ ~LacksTitle(itemFetches[1].resp.body)
    /\ TitleText(itemFetches[1].resp.body) = <<" ", "\n">>
    /\ plants[1].title = Some(<<>>)

\* What a step adds to the histories.
ListingFetched == listFetches' # listFetches
ItemFetched == itemFetches' # itemFetches
Emitted == output' # output

\* The links of the listing page fetched last, in markup order.
CurrentLinks == MarkupLinks(Last(listFetches).resp.body)

\* A listing fetch is the only event of its step, is for the next page number,
\* and comes after every item of the page before was fetched and printed.
ListingFetchInOrder ==
    ListingFetched =>
        /\ Len(listFetches') = Len(listFetches) + 1
        /\ SubSeq(listFetches', 1, Len(listFetches)) = listFetches
        /\ itemFetches' = itemFetches /\ output' = output
        /\ Last(listFetches').page = Len(listFetches) + 1
        /\ Len(output) = Len(itemFetches)
        /\ listFetches # <<>> => PageComplete(Len(listFetches))

\* An item fetch is the only event of its step, is for the next link of the
\* page fetched last, and no title of that page was printed before it.
ItemFetchInOrder ==
    ItemFetched =>
        /\ Len(itemFetches') = Len(itemFetches) + 1
        /\ SubSeq(itemFetches', 1, Len(itemFetches)) = itemFetches
        /\ listFetches' = listFetches /\ output' = output
        /\ listFetches # <<>>
        /\ YieldsLinks(Last(listFetches))
        /\ LET p == Last(listFetches).page
               k == Len(PageFetches(p)) + 1
           IN  /\ Last(itemFetches').page = p
               /\ k <= Len(CurrentLinks)
               /\ Last(itemFetches').url = CurrentLinks[k]
               /\ Len(output) = Len(itemFetches) - Len(PageFetches(p))

\* An emit is the only event of its step, prints the title of the next item
\* not printed yet, and comes after every item of the page was fetched.
EmitInOrder ==
    Emitted =>
        /\ Len(output') = Len(output) + 1
        /\ SubSeq(output', 1, Len(output)) = output
        /\ listFetches' = listFetches /\ itemFetches' = itemFetches
        /\ listFetches # <<>>
        /\ PageComplete(Len(listFetches))
        /\ Len(output) < Len(itemFetches)
        /\ itemFetches[Len(output) + 1].page = Last(listFetches).page
        /\ Last(output') = TitleLine(itemFetches[Len(output) + 1])

\* While the titles of a page are printed, all its items were collected.
EmitAfterAllItems ==
    pc = "emit" =>
        /\ listFetches # <<>>
        /\ PageComplete(Len(listFetches))
        /\ Len(plants) = Len(plant_links)

\* C13: within a page the listing fetch comes first, then the item fetches one
\* at a time in link order, then the emits in link order, then the listing
\* fetch of the next page; every step issues at most one fetch, and no title
\* of a page is printed before all items of the page were fetched.
C13_StrictOrder ==
    /\ [][ListingFetchInOrder]_vars
    /\ [][ItemFetchInOrder]_vars
    /\ [][EmitInOrder]_vars
    /\ []EmitAfterAllItems

\* The second title of page 2 is about to be printed: two items of page 1
\* and two of page 2 were fetched, three titles were printed.
C13_Witness ==
    /\ pc = "emit"
    /\ page = 2
    /\ idx = 2
    /\ Len(itemFetches) = 4
    /\ Len(output) = 3

\* The page numbers range(1, PAGE_LIMIT) holds: PAGE_LIMIT - 1 of them, none
\* for a limit of 0 or 1.
PagesBelowLimit == {p \in 1 .. MaxPageLimit : p < PAGE_LIMIT}

Terminated == pc \in {"done", "aborted"}

\* No more listing fetches than there are page numbers below the limit; and
\* when main has returned after pages that all had links and no fetch failed,
\* exactly the pages below the limit were processed, each one completely.
ListingFetchesBounded ==
    /\ Len(listFetches) <= Cardinality(PagesBelowLimit)
    /\ PAGE_LIMIT >= 1 => Len(listFetches) <= PAGE_LIMIT - 1
    /\ (/\ pc = "done"
        /\ NoFetchFailed
        /\ \A i \in DOMAIN listFetches : YieldsLinks(listFetches[i])) =>
            /\ {listFetches[i].page : i \in DOMAIN listFetches} = PagesBelowLimit
            /\ \A i \in DOMAIN listFetches : PageComplete(i)
            /\ Len(output) = Len(itemFetches)

\* C14: every run of main ends, in Done or by an exception that leaves main,
\* whatever the page limit and the content of the pages; it issues at most
\* PAGE_LIMIT - 1 listing fetches, and processes exactly the pages below the
\* limit when all of them have links and no fetch fails.
C14_Terminates ==
    /\ <>Terminated
    /\ [][Terminated => UNCHANGED vars]_vars
    /\ []ListingFetchesBounded

\* main returned at the bound after two pages with links, no fetch failed.
C14_Witness ==
    /\ pc = "done"
    /\ PAGE_LIMIT = 3
    /\ NoFetchFailed
    /\ Len(listFetches) = 2
    /\ YieldsLinks(listFetches[1]) /\ YieldsLinks(listFetches[2])
    /\ Len(itemFetches) = 3

\* The number of item fetches issued for the pages before page p.
FetchesBefore(p) == Cardinality({j \in DOMAIN itemFetches : itemFetches[j].page < p})

\* C15: once the fetch of an item of page p has failed, no title of page p is
\* printed: the output is, and stays, the full output of pages 1 .. p-1.
C15_FailedItemFetchLeavesPageUnprinted ==
    \A k \in DOMAIN itemFetches :
        Failed(itemFetches[k]) =>
            /\ Len(output) = FetchesBefore(itemFetches[k].page)
            /\ output = LinesUpTo(itemFetches[k].page - 1)

\* The number of link occurrences on the first n listing pages fetched,
\* counting the pages that answered with well-formed markup.
RECURSIVE LinkOccurrences(_)
LinkOccurrences(n) ==
    IF n = 0 THEN 0
    ELSE LinkOccurrences(n - 1)
            + (IF YieldsLinks(listFetches[n]) THEN Len(Cards(listFetches[n].resp.body)) ELSE 0)

\* C16: in a run without fetch failure every item fetch is for a link of the
\* listing page fetched last, at the position of its turn; a processed page has
\* exactly one item fetch per link occurrence, repeated links included; and
\* between pages and at the end the number of item fetches and the number of
\* printed lines both equal the number of link occurrences of the pages.
C16_OneFetchOneLinePerLink ==
    NoFetchFailed =>
        /\ \A i \in DOMAIN listFetches :
              LET fetched == PageFetches(listFetches[i].page)
                  links == MarkupLinks(listFetches[i].resp.body)
              IN  /\ fetched # <<>> => YieldsLinks(listFetches[i])
                  /\ Len(fetched) <= Len(links)
                  /\ \A k \in DOMAIN fetched : fetched[k].url = links[k]
                  /\ (i < Len(listFetches) \/ pc \in {"emit", "loop", "done"}) =>
                        (YieldsLinks(listFetches[i]) => Len(fetched) = Len(links))
        /\ \A k \in DOMAIN itemFetches :
              itemFetches[k].page \in {listFetches[i].page : i \in DOMAIN listFetches}
        /\ Len(itemFetches) <= LinkOccurrences(Len(listFetches))
        /\ Len(output) <= Len(itemFetches)
        /\ pc \in {"loop", "done", "aborted"} =>
              /\ Len(itemFetches) = LinkOccurrences(Len(listFetches))
              /\ Len(output) = LinkOccurrences(Len(listFetches))

\* Page 1 holds the same link twice and page 2 holds it again: three fetches
\* of the same URL, three lines.
C16_Witness ==
    /\ pc = "done"
    /\ NoFetchFailed
    /\ Len(listFetches) = 2
    /\ Len(itemFetches) = 3
    /\ \A k \in 1 .. 3 : itemFetches[k].url = "https://shop.test/p/a"
    /\ itemFetches[2].page = 1
    /\ itemFetches[3].page = 2
    /\ Len(output) = 3

====
